---- MODULE Spec2Model ----
(***************************************************************************)
(* merde_json: building a Value tree from a jiter token stream             *)
(* (merde_json/src/parser.rs).                                             *)
(*                                                                         *)
(* The builder (bytes_to_value, jiter_to_value, jiter_to_value_with_peek,  *)
(* cowify) is translated from parser.rs.  The token source (the jiter      *)
(* crate) and the Map type (merde_types) are not part of parser.rs; they   *)
(* are modelled here by what their operations do on the byte buffer.       *)
(*                                                                         *)
(* A byte is denoted by a string: a printable ASCII character by itself,   *)
(* any other byte by its TLA+ escape or by a name ("BS", "x1F", "xC3").    *)
(* Memory is a function from addresses to bytes; a slice (&[u8], &str) is  *)
(* a record [ptr, len].                                                    *)
(***************************************************************************)
EXTENDS Integers, Sequences, FiniteSets, TLC

VARIABLES
    input,    \* the document the buffer was written from: [tree, intact]
    mem,      \* initialised memory: address -> byte
    src,      \* the input buffer, a slice of mem: [ptr, len]
    tape,     \* jiter's un-escape buffer (Jiter::tape), a slice of mem
    index,    \* jiter's cursor (Parser::index), an offset into src
    pc,       \* where the builder stands
    peek,     \* the Peek handed to jiter_to_value_with_peek
    stack,    \* the enclosing jiter_to_value_with_peek calls (Array / Object)
    s,        \* the &str most recently handed to cowify
    ret,      \* the Value the last jiter_to_value_with_peek call returned
    result    \* what bytes_to_value gave its caller

vars == <<input, mem, src, tape, index, pc, peek, stack, s, ret, result>>

(***************************************************************************)
(* Bounds of the model.                                                    *)
(***************************************************************************)
\* Well-formed documents have at most this many nodes (values).
MaxNodes == 3
\* Documents that are written with whitespace, or damaged (a run of bytes
\* cut out), have at most this many nodes.
MaxSmallNodes == 2
\* A damaged document has a run of at most this many bytes cut out.
MaxCut == 2
\* Size of the address space cowify is checked on as a function of its own.
MemSize == 4

(***************************************************************************)
(* Bytes.                                                                  *)
(***************************************************************************)
Digits == <<"0", "1", "2", "3", "4", "5", "6", "7", "8", "9">>

IsDigit(b) == \E d \in 1..10 : Digits[d] = b

DigitVal(b) == (CHOOSE d \in 1..10 : Digits[d] = b) - 1

HexLetters == <<"a", "b", "c", "d", "e", "f">>

HexUpper == <<"A", "B", "C", "D", "E", "F">>

IsHex(b) == IsDigit(b) \/ \E d \in 1..6 : HexLetters[d] = b \/ HexUpper[d] = b

HexVal(b) ==
    IF IsDigit(b) THEN DigitVal(b)
    ELSE 9 + (CHOOSE d \in 1..6 : HexLetters[d] = b \/ HexUpper[d] = b)

\* The printable ASCII characters, code points 32 to 126 in order (the
\* grave accent, which a TLA+ string cannot hold, by name).
Ascii ==
    <<" ", "!", "\"", "#", "$", "%", "&", "'", "(", ")", "*", "+", ",", "-",
      ".", "/", "0", "1", "2", "3", "4", "5", "6", "7", "8", "9", ":", ";",
      "<", "=", ">", "?", "@", "A", "B", "C", "D", "E", "F", "G", "H", "I",
      "J", "K", "L", "M", "N", "O", "P", "Q", "R", "S", "T", "U", "V", "W",
      "X", "Y", "Z", "[", "\\", "]", "^", "_", "GRAVE", "a", "b", "c", "d", "e",
      "f", "g", "h", "i", "j", "k", "l", "m", "n", "o", "p", "q", "r", "s",
      "t", "u", "v", "w", "x", "y", "z", "{", "|", "}", "~">>

\* The bytes 0x00 to 0x1F in order.
LowBytes ==
    <<"x00", "x01", "x02", "x03", "x04", "x05", "x06", "x07", "BS", "\t",
      "\n", "x0B", "\f", "\r", "x0E", "x0F", "x10", "x11", "x12", "x13",
      "x14", "x15", "x16", "x17", "x18", "x19", "x1A", "x1B", "x1C", "x1D",
      "x1E", "x1F">>

\* The bytes 0x7F to 0xFF in order.
HighBytes ==
    <<"x7F", "x80", "x81", "x82", "x83", "x84", "x85", "x86", "x87", "x88",
      "x89", "x8A", "x8B", "x8C", "x8D", "x8E", "x8F", "x90", "x91", "x92",
      "x93", "x94", "x95", "x96", "x97", "x98", "x99", "x9A", "x9B", "x9C",
      "x9D", "x9E", "x9F", "xA0", "xA1", "xA2", "xA3", "xA4", "xA5", "xA6",
      "xA7", "xA8", "xA9", "xAA", "xAB", "xAC", "xAD", "xAE", "xAF", "xB0",
      "xB1", "xB2", "xB3", "xB4", "xB5", "xB6", "xB7", "xB8", "xB9", "xBA",
      "xBB", "xBC", "xBD", "xBE", "xBF", "xC0", "xC1", "xC2", "xC3", "xC4",
      "xC5", "xC6", "xC7", "xC8", "xC9", "xCA", "xCB", "xCC", "xCD", "xCE",
      "xCF", "xD0", "xD1", "xD2", "xD3", "xD4", "xD5", "xD6", "xD7", "xD8",
      "xD9", "xDA", "xDB", "xDC", "xDD", "xDE", "xDF", "xE0", "xE1", "xE2",
      "xE3", "xE4", "xE5", "xE6", "xE7", "xE8", "xE9", "xEA", "xEB", "xEC",
      "xED", "xEE", "xEF", "xF0", "xF1", "xF2", "xF3", "xF4", "xF5", "xF6",
      "xF7", "xF8", "xF9", "xFA", "xFB", "xFC", "xFD", "xFE", "xFF">>

\* The byte of value n, 0 <= n <= 255.
ByteOf(n) ==
    IF n < 32 THEN LowBytes[n + 1]
    ELSE IF n < 127 THEN Ascii[n - 31]
    ELSE HighBytes[n - 126]

\* The value of a byte.
ByteVal(b) == CHOOSE n \in 0..255 : ByteOf(n) = b

\* The bytes jiter refuses inside a string: those below 0x20.
ControlBytes == { LowBytes[k] : k \in 1..32 }

\* The bytes below 0x80.
AsciiBytes == { ByteOf(n) : n \in 0..127 }

\* The bytes jiter skips between tokens.
Whitespace == {" ", "\t", "\n", "\r"}

(***************************************************************************)
(* The documents: a tree, and the bytes it is written as.                  *)
(***************************************************************************)
TNull == [t |-> "Null"]

TBool(b) == [t |-> "Bool", b |-> b]

\* An integer literal of the i64 range: its sign and its magnitude as three
\* limbs <<a, b, c>> of nine decimal digits, a * 10^18 + b * 10^9 + c.
TInt(neg, limbs) == [t |-> "Int", neg |-> neg, limbs |-> limbs]

TBigInt(digits) == [t |-> "BigInt", digits |-> digits]

TFloat(whole, frac) == [t |-> "Float", whole |-> whole, frac |-> frac]

TStr(text, esc) == [t |-> "Str", text |-> text, esc |-> esc]

TArray(a) == [t |-> "Array", a |-> a]

TObject(members) == [t |-> "Object", members |-> members]

\* 2^63, the least integer literal above i64::MAX.
TwoPow63 ==
    <<"9", "2", "2", "3", "3", "7", "2", "0", "3", "6", "8", "5", "4", "7",
      "7", "5", "8", "0", "8">>

\* i64::MAX as a digit string.
I64Max ==
    <<"9", "2", "2", "3", "3", "7", "2", "0", "3", "6", "8", "5", "4", "7",
      "7", "5", "8", "0", "7">>

RECURSIVE NatDigits(_)
\* The decimal digits of a natural number.
NatDigits(n) ==
    IF n < 10 THEN <<Digits[n + 1]>>
    ELSE NatDigits(n \div 10) \o <<Digits[(n % 10) + 1]>>

\* ds with zeros put before it up to the length n.
PadLeft(ds, n) ==
    [k \in 1..n |-> IF k <= n - Len(ds) THEN "0" ELSE ds[k - (n - Len(ds))]]

\* ds without its leading zeros; a string of zeros only is <<"0">>.
StripZeros(ds) ==
    IF \A k \in 1..Len(ds) : ds[k] = "0" THEN <<"0">>
    ELSE SubSeq(ds, CHOOSE k \in 1..Len(ds) :
                       ds[k] # "0" /\ \A l \in 1..(k - 1) : ds[l] = "0",
                Len(ds))

\* The decimal digits of a magnitude given as limbs.
LimbDigits(limbs) ==
    StripZeros(PadLeft(NatDigits(limbs[1]), 9) \o PadLeft(NatDigits(limbs[2]), 9)
               \o PadLeft(NatDigits(limbs[3]), 9))

\* The bytes that must be escaped inside a JSON string, or may be.
EscapeOf(b) ==
    CASE b = "\"" -> <<"\\", "\"">>
      [] b = "\\" -> <<"\\", "\\">>
      [] b = "/"  -> <<"\\", "/">>
      [] b = "\n" -> <<"\\", "n">>
      [] b = "\t" -> <<"\\", "t">>
      [] OTHER    -> <<b>>

RECURSIVE EscapeText(_)
EscapeText(text) ==
    IF text = <<>> THEN <<>>
    ELSE EscapeOf(Head(text)) \o EscapeText(Tail(text))

\* What stands between the quotes of a string token.
RawText(str) == IF str.esc THEN EscapeText(str.text) ELSE str.text

HasEscape(str) == \E i \in 1..Len(RawText(str)) : RawText(str)[i] = "\\"

Quoted(str) == <<"\"">> \o RawText(str) \o <<"\"">>

RECURSIVE Render(_, _)
RECURSIVE RenderElems(_, _)
RECURSIVE RenderMembers(_, _)
\* The JSON text of a tree, with the bytes ws after every structural byte
\* and before every closing one (ws = <<>>: the compact text).
Render(tree, ws) ==
    CASE tree.t = "Null"   -> <<"n", "u", "l", "l">>
      [] tree.t = "Bool"   -> IF tree.b THEN <<"t", "r", "u", "e">>
                              ELSE <<"f", "a", "l", "s", "e">>
      [] tree.t = "Int"    -> (IF tree.neg THEN <<"-">> ELSE <<>>)
                              \o LimbDigits(tree.limbs)
      [] tree.t = "BigInt" -> tree.digits
      [] tree.t = "Float"  -> NatDigits(tree.whole) \o <<".">> \o tree.frac
      [] tree.t = "Str"    -> Quoted(tree)
      [] tree.t = "Array"  ->
            <<"[">> \o ws \o RenderElems(tree.a, ws) \o <<"]">>
      [] tree.t = "Object" ->
            <<"{">> \o ws \o RenderMembers(tree.members, ws) \o <<"}">>

RenderElems(a, ws) ==
    IF a = <<>> THEN <<>>
    ELSE Render(Head(a), ws) \o ws
         \o (IF Len(a) > 1 THEN <<",">> \o ws ELSE <<>>)
         \o RenderElems(Tail(a), ws)

RenderMembers(ms, ws) ==
    IF ms = <<>> THEN <<>>
    ELSE Quoted(Head(ms).key) \o ws \o <<":">> \o ws
         \o Render(Head(ms).value, ws) \o ws
         \o (IF Len(ms) > 1 THEN <<",">> \o ws ELSE <<>>)
         \o RenderMembers(Tail(ms), ws)

\* A whole document: the text of its tree between leading and trailing ws.
RenderDoc(tree, ws) == ws \o Render(tree, ws) \o ws

\* The scalar values documents are built from.
Leaves ==
    { TNull, TBool(TRUE), TInt(FALSE, <<0, 0, 42>>), TInt(TRUE, <<0, 0, 1>>),
      TFloat(1, <<"5">>),
      TStr(<<>>, FALSE), TStr(<<"a">>, FALSE), TStr(<<"a", "/">>, TRUE) }

\* Scalars that appear as whole documents only: among them 2^31 - 1, 2^31,
\* i64::MAX, 2^63, 10 * 2^63 and 0.1, which no f64 is equal to.
WholeDocs ==
    { TBool(FALSE), TInt(FALSE, <<0, 0, 0>>), TInt(FALSE, <<0, 0, 7>>),
      TInt(FALSE, <<0, 2, 147483647>>), TInt(FALSE, <<0, 2, 147483648>>),
      TInt(FALSE, <<9, 223372036, 854775807>>),
      TInt(TRUE, <<0, 0, 42>>), TFloat(42, <<"0">>), TFloat(0, <<"2", "5">>),
      TFloat(0, <<"1">>),
      TBigInt(TwoPow63), TBigInt(TwoPow63 \o <<"0">>) }

\* The object keys documents are built from: "/" and "\/" are one key.
Keys == { TStr(<<"a">>, FALSE), TStr(<<"/">>, FALSE), TStr(<<"/">>, TRUE) }

RECURSIVE TreesOfSize(_)
RECURSIVE ElemsOfSize(_)
RECURSIVE MembersOfSize(_)
\* The trees of exactly n nodes.
TreesOfSize(n) ==
    IF n = 1 THEN Leaves \cup {TArray(<<>>), TObject(<<>>)}
    ELSE { TArray(a) : a \in ElemsOfSize(n - 1) }
         \cup { TObject(ms) : ms \in MembersOfSize(n - 1) }

\* The sequences of trees of n nodes in all.
ElemsOfSize(n) ==
    IF n = 0 THEN {<<>>}
    ELSE UNION { { <<x>> \o rest : x \in TreesOfSize(k),
                                    rest \in ElemsOfSize(n - k) } : k \in 1..n }

MembersOfSize(n) ==
    IF n = 0 THEN {<<>>}
    ELSE UNION { { <<[key |-> k, value |-> x]>> \o rest :
                       k \in Keys, x \in TreesOfSize(j),
                       rest \in MembersOfSize(n - j) } : j \in 1..n }

Trees(n) == UNION { TreesOfSize(k) : k \in 1..n }

\* The documents a run of bytes is cut out of.
Damageable == Trees(MaxSmallNodes) \cup WholeDocs

\* bytes with the run [from, to) cut out (offsets from 0)
CutOut(bytes, from, to) ==
    SubSeq(bytes, 1, from) \o SubSeq(bytes, to + 1, Len(bytes))

(***************************************************************************)
(* Memory, slices and results.                                             *)
(***************************************************************************)
Slice(ptr, len) == [ptr |-> ptr, len |-> len]

\* The addresses of a slice.
Range(sl) == sl.ptr .. (sl.ptr + sl.len - 1)

\* The bytes of a slice of memory m.
BytesOf(m, sl) == [i \in 1..sl.len |-> m[sl.ptr + i - 1]]

\* data[i] of the buffer jiter reads (Parser::data is src).
At(i) == mem[src.ptr + i]

\* Ok(v) / Ok(Some(v)), with the cursor after the operation.
Ok(v, i) == [ok |-> TRUE, some |-> TRUE, v |-> v, index |-> i]

\* Ok(None).
OkNone(i) == [ok |-> TRUE, some |-> FALSE, index |-> i]

\* A JsonError / JiterError: its error type and the offset it names; the
\* cursor is left at that offset.
Err(type, i) ==
    [ok |-> FALSE, err |-> [type |-> type, index |-> i], index |-> i]

\* The error r of an operation that moves the cursor on success only: the
\* cursor is left at i, where the operation found it.
ErrLeftAt(r, i) == [r EXCEPT !.index = i]

(***************************************************************************)
(* CowStr (merde_types) and cowify (parser.rs).                            *)
(***************************************************************************)
Borrowed(ptr, len) == [variant |-> "Borrowed", ptr |-> ptr, len |-> len]

Owned(text) == [variant |-> "Owned", text |-> text]

\* The text of a CowStr, read from memory m when it is borrowed.
Content(m, cow) ==
    IF cow.variant = "Borrowed" THEN BytesOf(m, Slice(cow.ptr, cow.len))
    ELSE cow.text

\* A mutant of PtrRangeContains: the end of the range is taken as inside.
PtrRangeContainsEnd(sl, p) == sl.ptr <= p /\ p <= sl.ptr + sl.len

\* src.as_ptr_range().contains(&p)
PtrRangeContains(sl, p) == sl.ptr <= p /\ p < sl.ptr + sl.len

\* A mutant of cowify: the text is always copied.
cowifyAlwaysOwned(m, srcv, sv) == Owned(BytesOf(m, sv))

\* cowify(src, s), in memory m.
cowify(m, srcv, sv) ==
    IF PtrRangeContains(srcv, sv.ptr)
    THEN Borrowed(sv.ptr, sv.len)
    ELSE Owned(BytesOf(m, sv))

(***************************************************************************)
(* The token source: jiter's Jiter / Parser over the buffer src, cursor    *)
(* index.  Every operation yields Ok(value, new cursor) or Err(type, at).  *)
(***************************************************************************)
RECURSIVE eat_whitespace(_)
\* Parser::eat_whitespace from offset i: the offset of the next byte that is
\* not whitespace, src.len when there is none.
eat_whitespace(i) ==
    IF i < src.len /\ At(i) \in Whitespace THEN eat_whitespace(i + 1) ELSE i

\* Jiter::peek: the next byte that is not whitespace, as a Peek; nothing of
\* the token is consumed.
Jiter_peek(i) ==
    LET j == eat_whitespace(i)
    IN  IF j < src.len THEN Ok(At(j), j)
        ELSE Err("EofWhileParsingValue", j)

\* The byte a simple escape stands for.
Unescape(e) ==
    CASE e = "\"" -> "\""
      [] e = "\\" -> "\\"
      [] e = "/"  -> "/"
      [] e = "b"  -> "BS"
      [] e = "f"  -> "\f"
      [] e = "n"  -> "\n"
      [] e = "r"  -> "\r"
      [] e = "t"  -> "\t"

SimpleEscapes == {"\"", "\\", "/", "b", "f", "n", "r", "t"}

\* char::encode_utf8: the UTF-8 bytes of the code point c.
encode_utf8(c) ==
    IF c < 128 THEN <<ByteOf(c)>>
    ELSE IF c < 2048
    THEN <<ByteOf(192 + (c \div 64)), ByteOf(128 + (c % 64))>>
    ELSE IF c < 65536
    THEN <<ByteOf(224 + (c \div 4096)), ByteOf(128 + ((c \div 64) % 64)),
           ByteOf(128 + (c % 64))>>
    ELSE <<ByteOf(240 + (c \div 262144)), ByteOf(128 + ((c \div 4096) % 64)),
           ByteOf(128 + ((c \div 64) % 64)), ByteOf(128 + (c % 64))>>

\* Whether bs has a byte at position k whose value is in lo..hi.
ByteIn(bs, k, lo, hi) == k <= Len(bs) /\ ByteVal(bs[k]) \in lo..hi

\* Whether the n bytes of bs from position k on are continuation bytes.
Continues(bs, k, n) == \A l \in 0..(n - 1) : ByteIn(bs, k + l, 128, 191)

\* The length of the well-formed UTF-8 sequence that starts at position k of
\* bs with a byte of value b, 0 when there is none (the ranges
\* core::str::from_utf8 accepts).
SequenceFrom(bs, k, b) ==
    IF b < 128 THEN 1
    ELSE IF b \in 194..223 /\ Continues(bs, k + 1, 1) THEN 2
    ELSE IF /\ b \in 224..239
            /\ ByteIn(bs, k + 1, IF b = 224 THEN 160 ELSE 128,
                                 IF b = 237 THEN 159 ELSE 191)
            /\ Continues(bs, k + 2, 1)
    THEN 3
    ELSE IF /\ b \in 240..244
            /\ ByteIn(bs, k + 1, IF b = 240 THEN 144 ELSE 128,
                                 IF b = 244 THEN 143 ELSE 191)
            /\ Continues(bs, k + 2, 2)
    THEN 4
    ELSE 0

RECURSIVE valid_up_to(_, _)
RECURSIVE ValidAfter(_, _, _)
\* std::str::from_utf8 from position k of bs (counted from 1): the number of
\* bytes of bs before the first sequence that is not well-formed UTF-8,
\* Len(bs) when there is none (Utf8Error::valid_up_to).
valid_up_to(bs, k) ==
    IF k > Len(bs) THEN Len(bs)
    ELSE IF bs[k] \in AsciiBytes THEN valid_up_to(bs, k + 1)
    ELSE ValidAfter(bs, k, SequenceFrom(bs, k, ByteVal(bs[k])))

\* valid_up_to when the sequence at position k has n bytes (0: none).
ValidAfter(bs, k, n) == IF n = 0 THEN k - 1 ELSE valid_up_to(bs, k + n)

\* parse_u4: the four hex digits after the u at offset j; a byte that is no
\* hex digit is the error InvalidEscape at its own offset.
parse_u4(j) ==
    IF j + 5 > src.len THEN Err("EofWhileParsingString", src.len)
    ELSE IF \E k \in 1..4 : ~IsHex(At(j + k))
    THEN Err("InvalidEscape",
             j + (CHOOSE k \in 1..4 : ~IsHex(At(j + k))
                                       /\ \A l \in 1..(k - 1) : IsHex(At(j + l))))
    ELSE Ok(4096 * HexVal(At(j + 1)) + 256 * HexVal(At(j + 2))
            + 16 * HexVal(At(j + 3)) + HexVal(At(j + 4)), j + 4)

\* The pair of surrogate escapes u (leading) and w (trailing): the code
\* point above FFFF they stand for.
SurrogatePair(u, w) ==
    IF ~w.ok THEN w
    ELSE IF w.v \notin 56320..57343
    THEN Err("LoneLeadingSurrogateInHexEscape", w.index)
    ELSE Ok((u.v - 55296) * 1024 + (w.v - 56320) + 65536, w.index)

\* What follows a leading surrogate escape that ends at offset i, unless it
\* is the escape of a trailing one.
NoSurrogatePair(i) ==
    IF i + 3 <= src.len
    THEN IF At(i + 1) = "\\" THEN Err("UnexpectedEndOfHexEscape", i + 1)
         ELSE Err("UnexpectedEndOfHexEscape", i)
    ELSE IF i + 1 >= src.len \/ At(i + 1) = "\\"
    THEN Err("EofWhileParsingString", src.len)
    ELSE Err("UnexpectedEndOfHexEscape", i)

\* parse_escape for the four hex digits u: a code point outside the
\* surrogates is itself; a leading surrogate (D800 to DBFF) must be followed
\* by the escape of a trailing one (DC00 to DFFF); a trailing one alone is
\* an error.
CodePoint(u) ==
    IF ~u.ok THEN u
    ELSE IF u.v \in 56320..57343
    THEN Err("LoneLeadingSurrogateInHexEscape", u.index)
    ELSE IF u.v \notin 55296..56319 THEN u
    ELSE IF /\ u.index + 3 <= src.len
            /\ At(u.index + 1) = "\\"
            /\ At(u.index + 2) = "u"
    THEN SurrogatePair(u, parse_u4(u.index + 2))
    ELSE NoSurrogatePair(u.index)

\* parse_escape: the code point of the \uXXXX escape whose u is at offset j,
\* the cursor then at its last hex digit.
parse_escape(j) == CodePoint(parse_u4(j))

\* to_str at the closing quote at offset j: the text acc must be well-formed
\* UTF-8, n = valid_up_to of it.
to_str(start, j, acc, escaped, n) ==
    IF n = Len(acc)
    THEN Ok([escaped |-> escaped, start |-> start, text |-> acc], j + 1)
    ELSE Err("InvalidUnicodeCodePoint", start + n + 1)

RECURSIVE decode_from(_, _, _, _)
RECURSIVE AfterEscape(_, _, _)
\* StringDecoder::decode past the opening quote: start is the offset of the
\* first byte of the text, j the offset reached, acc the text so far,
\* escaped whether an escape was met (the text then goes to the tape).
decode_from(start, j, acc, escaped) ==
    IF j >= src.len THEN Err("EofWhileParsingString", j)
    ELSE LET b == At(j) IN
      CASE b = "\"" -> to_str(start, j, acc, escaped, valid_up_to(acc, 1))
        [] b = "\\" ->
             IF j + 1 >= src.len THEN Err("EofWhileParsingString", j + 1)
             ELSE LET e == At(j + 1) IN
               IF e \in SimpleEscapes
               THEN decode_from(start, j + 2, Append(acc, Unescape(e)), TRUE)
               ELSE IF e = "u"
               THEN AfterEscape(start, acc, parse_escape(j + 1))
               ELSE Err("InvalidEscape", j + 1)
        [] b \in ControlBytes -> Err("ControlCharacterWhileParsingString", j)
        [] OTHER -> decode_from(start, j + 1, Append(acc, b), escaped)

\* The decoding goes on after the \uXXXX escape u with the UTF-8 bytes of
\* its code point on the tape.
AfterEscape(start, acc, u) ==
    IF u.ok THEN decode_from(start, u.index + 1, acc \o encode_utf8(u.v), TRUE)
    ELSE u

\* Parser::consume_string at the opening quote at offset i: the cursor moves
\* past the closing quote when the decoding succeeds, and stays at i when it
\* fails.  (What a failed decoding had put on the tape is not kept: the
\* build ends with the error and reads the tape no more.)
consume_string(i) ==
    LET d == decode_from(i + 1, i + 1, <<>>, FALSE)
    IN  IF d.ok THEN d ELSE ErrLeftAt(d, i)

\* The &str a decoded string is handed out as: a slice of the buffer when
\* no escape was met (StringOutput::Data), the tape otherwise
\* (StringOutput::Tape).
StrOf(d) ==
    IF d.escaped THEN Slice(tape.ptr, Len(d.text))
    ELSE Slice(src.ptr + d.start, Len(d.text))

\* Memory after the decoding: an escaped text is written to the tape.
MemAfter(d) ==
    IF d.escaped
    THEN [a \in Range(src) \cup Range(Slice(tape.ptr, Len(d.text))) |->
             IF a \in Range(src) THEN mem[a] ELSE d.text[a - tape.ptr + 1]]
    ELSE mem

TapeAfter(d) == IF d.escaped THEN Slice(tape.ptr, Len(d.text)) ELSE tape

\* Jiter::known_str with the cursor at the opening quote.
Jiter_known_str(i) == consume_string(i)

\* Parser::array_first (Jiter::known_array) with the cursor at the [:
\* the Peek of the first element, or None for an empty array.
Jiter_known_array(i) ==
    LET j == eat_whitespace(i + 1)
    IN  IF j >= src.len THEN Err("EofWhileParsingList", j)
        ELSE IF At(j) = "]" THEN OkNone(j + 1)
        ELSE Ok(At(j), j)

\* Parser::array_peek after a comma.
array_peek(i) ==
    LET j == eat_whitespace(i)
    IN  IF j >= src.len THEN Err("EofWhileParsingValue", j)
        ELSE IF At(j) = "]" THEN OkNone(j)
        ELSE Ok(At(j), j)

\* Parser::array_step (Jiter::array_step).
Jiter_array_step(i) ==
    LET j == eat_whitespace(i)
    IN  IF j >= src.len THEN Err("EofWhileParsingList", j)
        ELSE IF At(j) = ","
        THEN LET n == array_peek(j + 1)
             IN  IF n.ok /\ ~n.some THEN Err("TrailingComma", n.index)
                 ELSE n
        ELSE IF At(j) = "]" THEN OkNone(j + 1)
        ELSE Err("ExpectedListCommaOrEnd", j)

\* Parser::object_key with the cursor at the key's opening quote: the key,
\* then the colon.
object_key(i) ==
    LET d == consume_string(i)
    IN  IF ~d.ok THEN d
        ELSE LET j == eat_whitespace(d.index)
             IN  IF j >= src.len THEN Err("EofWhileParsingObject", j)
                 ELSE IF At(j) = ":" THEN Ok(d.v, j + 1)
                 ELSE Err("ExpectedColon", j)

\* Parser::object_first (Jiter::known_object) with the cursor at the {:
\* the decoded first key, or None for an empty object.
Jiter_known_object(i) ==
    LET j == eat_whitespace(i + 1)
    IN  IF j >= src.len THEN Err("EofWhileParsingObject", j)
        ELSE IF At(j) = "\"" THEN object_key(j)
        ELSE IF At(j) = "}" THEN OkNone(j + 1)
        ELSE Err("KeyMustBeAString", j)

\* Parser::object_step (Jiter::next_key).
Jiter_next_key(i) ==
    LET j == eat_whitespace(i)
    IN  IF j >= src.len THEN Err("EofWhileParsingObject", j)
        ELSE IF At(j) = ","
        THEN LET k == eat_whitespace(j + 1)
             IN  IF k >= src.len THEN Err("EofWhileParsingValue", k)
                 ELSE IF At(k) = "\"" THEN object_key(k)
                 ELSE IF At(k) = "}" THEN Err("TrailingComma", k)
                 ELSE Err("KeyMustBeAString", k)
        ELSE IF At(j) = "}" THEN OkNone(j + 1)
        ELSE Err("ExpectedObjectCommaOrEnd", j)

\* The offset after the run of ASCII digits that starts at offset j.
digits_end(j) ==
    IF j >= src.len THEN j
    ELSE CHOOSE e \in j..src.len :
            /\ \A l \in j..(e - 1) : IsDigit(At(l))
            /\ e = src.len \/ ~IsDigit(At(e))

\* The bytes of the buffer at offsets [from, to).
DataBytes(from, to) == [k \in 1..(to - from) |-> At(from + k - 1)]

RECURSIVE DigitsValue(_)
\* The number a string of at most nine digits denotes.
DigitsValue(ds) ==
    IF ds = <<>> THEN 0
    ELSE 10 * DigitsValue(SubSeq(ds, 1, Len(ds) - 1)) + DigitVal(ds[Len(ds)])

\* The magnitude a string of at most 27 digits denotes, as three limbs of
\* nine decimal digits (an i64 has at most 19).
Limbs(ds) ==
    LET p == PadLeft(ds, 27)
    IN  <<DigitsValue(SubSeq(p, 1, 9)), DigitsValue(SubSeq(p, 10, 18)),
          DigitsValue(SubSeq(p, 19, 27))>>

\* An i64: its sign and the limbs of its magnitude.
I64(neg, limbs) == [neg |-> neg, limbs |-> limbs]

\* ds <= es for digit strings of one length.
DigitsLeq(ds, es) ==
    \/ ds = es
    \/ \E k \in 1..Len(ds) :
          /\ DigitVal(ds[k]) < DigitVal(es[k])
          /\ \A l \in 1..(k - 1) : ds[l] = es[l]

\* Whether a digit string without leading zero is at most i64::MAX.
FitsI64(ds) ==
    \/ Len(ds) < Len(I64Max)
    \/ Len(ds) = Len(I64Max) /\ DigitsLeq(ds, I64Max)

\* Whether IntParse gives a digit string without leading zero as an i64.
\* One of at most 17 digits always is, and one outside the i64 range never.
\* One of 18 or 19 digits inside the range is when the small-integer path of
\* the jiter in the build takes it (small), and goes the BigInt way when
\* that path gives up after a fixed number of digits: both are kept.
ParsedAsI64(ds, small) == FitsI64(ds) /\ (Len(ds) <= 17 \/ small)

IsFloatMark(j) == j < src.len /\ At(j) \in {".", "e", "E"}

\* IntParse::parse for a literal that starts with an ASCII digit at offset
\* i (the builder hands '-', 'I' and 'N' to other arms): the integer when
\* it is parsed as an i64, its BigInt form when it is not, Float when a
\* fraction or an exponent follows.
IntParse(i, small) ==
    IF At(i) = "0"
    THEN IF IsFloatMark(i + 1) THEN Ok([kind |-> "Float"], i + 1)
         ELSE IF i + 1 < src.len /\ IsDigit(At(i + 1))
         THEN Err("InvalidNumber", i + 1)
         ELSE Ok([kind |-> "Int", i |-> I64(FALSE, Limbs(<<"0">>))], i + 1)
    ELSE LET j  == digits_end(i)
             ds == DataBytes(i, j)
         IN  IF IsFloatMark(j) THEN Ok([kind |-> "Float"], j)
             ELSE IF ParsedAsI64(ds, small)
             THEN Ok([kind |-> "Int", i |-> I64(FALSE, Limbs(ds))], j)
             ELSE Ok([kind |-> "BigInt", digits |-> ds], j)

\* Jiter::next_int: peek, then known_int (NumberInt::decode); a literal with
\* a fraction or an exponent is the error FloatExpectingInt at the offset of
\* the fraction or exponent mark.  peek moves the cursor past whitespace;
\* known_int moves it only on success.
Jiter_next_int(i, small) ==
    LET p == Jiter_peek(i)
    IN  IF ~p.ok THEN p
        ELSE LET n == IntParse(p.index, small)
             IN  IF ~n.ok THEN ErrLeftAt(n, p.index)
                 ELSE IF n.v.kind = "Float"
                 THEN ErrLeftAt(Err("FloatExpectingInt", n.index), p.index)
                 ELSE n

\* A natural number of any size is the sequence of its limbs of 16 bits, the
\* least significant first, the last one not 0; <<>> is zero.
Trim(a) ==
    IF \A k \in 1..Len(a) : a[k] = 0 THEN <<>>
    ELSE SubSeq(a, 1, CHOOSE k \in 1..Len(a) :
                         a[k] # 0 /\ \A l \in (k + 1)..Len(a) : a[l] = 0)

\* Whether adding up limbs t, each below 2^17 - 1, carries into limb k.
CarryInto(t, k) ==
    \E j \in 1..(k - 1) :
       t[j] >= 65536 /\ \A l \in (j + 1)..(k - 1) : t[l] >= 65535

\* The number with the limbs t, each below 2^17 - 1, the last below 2^16 - 1.
Carried(t) ==
    Trim([k \in 1..Len(t) |->
            (t[k] + (IF CarryInto(t, k) THEN 1 ELSE 0)) % 65536])

\* a * m + c, for m at most 10000 and c below it.
MulAdd(a, m, c) ==
    Carried([k \in 1..(Len(a) + 1) |->
               (IF k <= Len(a) THEN (a[k] * m) % 65536 ELSE 0)
               + (IF k > 1 THEN (a[k - 1] * m) \div 65536 ELSE c)])

RECURSIVE BigOfDigits(_)
\* The number a digit string denotes.
BigOfDigits(ds) ==
    IF Len(ds) <= 4 THEN MulAdd(<<>>, 1, DigitsValue(ds))
    ELSE MulAdd(BigOfDigits(SubSeq(ds, 1, Len(ds) - 4)), 10000,
                DigitsValue(SubSeq(ds, Len(ds) - 3, Len(ds))))

\* a * 5^20
MulPow5x20(a) ==
    MulAdd(MulAdd(MulAdd(MulAdd(a, 3125, 0), 3125, 0), 3125, 0), 3125, 0)

RECURSIVE MulPow5(_, _)
\* a * 5^k
MulPow5(a, k) ==
    IF k = 0 \/ a = <<>> THEN a
    ELSE IF k >= 40 THEN MulPow5(MulPow5x20(MulPow5x20(a)), k - 40)
    ELSE IF k >= 5 THEN MulPow5(MulAdd(a, 3125, 0), k - 5)
    ELSE MulPow5(MulAdd(a, 5, 0), k - 1)

\* a * 2^r for r below 16.
ShiftBits(a, r) ==
    Trim([k \in 1..(Len(a) + 1) |->
            (IF k <= Len(a) THEN (a[k] * 2^r) % 65536 ELSE 0)
            + (IF k > 1 THEN (a[k - 1] * 2^r) \div 65536 ELSE 0)])

\* a * 2^k for k > 0, a otherwise.
ShiftLeft(a, k) ==
    IF k <= 0 \/ a = <<>> THEN a
    ELSE [j \in 1..(k \div 16) |-> 0] \o ShiftBits(a, k % 16)

\* The number of bits of a.
BitLen(a) ==
    IF a = <<>> THEN 0
    ELSE 16 * (Len(a) - 1)
         + (CHOOSE b \in 1..16 : 2^(b - 1) <= a[Len(a)] /\ a[Len(a)] < 2^b)

\* a < b
Less(a, b) ==
    IF Len(a) # Len(b) THEN Len(a) < Len(b)
    ELSE \E k \in 1..Len(a) :
            /\ a[k] < b[k]
            /\ \A l \in (k + 1)..Len(a) : a[l] = b[l]

\* Limb k of b, 0 above its last one.
Limb(b, k) == IF k <= Len(b) THEN b[k] ELSE 0

\* Whether taking b from a borrows from limb k.
BorrowFrom(a, b, k) ==
    \E j \in 1..(k - 1) :
       a[j] < Limb(b, j) /\ \A l \in (j + 1)..(k - 1) : a[l] <= Limb(b, l)

\* a - b, for b at most a.
Sub(a, b) ==
    Trim([k \in 1..Len(a) |->
            (a[k] + 65536 - Limb(b, k)
             - (IF BorrowFrom(a, b, k) THEN 1 ELSE 0)) % 65536])

\* A long division in binary by t is the bits q.bits of the quotient found so
\* far, the most significant first, and what is left to divide, q.rest,
\* doubled once for each bit.  One step finds the next bit.
DivStep(q, t) ==
    IF Less(q.rest, t)
    THEN [bits |-> Append(q.bits, 0), rest |-> ShiftBits(q.rest, 1)]
    ELSE [bits |-> Append(q.bits, 1), rest |-> ShiftBits(Sub(q.rest, t), 1)]

\* Eight steps.
DivStep8(q, t) ==
    DivStep(DivStep(DivStep(DivStep(DivStep(DivStep(DivStep(DivStep(
       q, t), t), t), t), t), t), t), t)

RECURSIVE DivBits(_, _, _)
\* The division q after n more steps; when nothing is left the other bits
\* are 0.
DivBits(q, t, n) ==
    IF n = 0 \/ q.rest = <<>>
    THEN [bits |-> q.bits \o [k \in 1..n |-> 0], rest |-> q.rest]
    ELSE IF n >= 8 THEN DivBits(DivStep8(q, t), t, n - 8)
    ELSE DivBits(DivStep(q, t), t, n - 1)

\* The bits of the number after the one with these bits.
AddOne(bits) ==
    IF \A k \in 1..Len(bits) : bits[k] = 1
    THEN <<1>> \o [k \in 1..Len(bits) |-> 0]
    ELSE LET z == CHOOSE k \in 1..Len(bits) :
                     bits[k] = 0 /\ \A l \in (k + 1)..Len(bits) : bits[l] = 1
         IN  [k \in 1..Len(bits) |->
                IF k < z THEN bits[k] ELSE IF k = z THEN 1 ELSE 0]

\* The f64 bits * 2^e, for at most 53 bits after the first 1: infinity from
\* 2^1024 on, and otherwise <<"fin", m, x>> for m * 2^x, with m the binary
\* digits of an odd number, the most significant first, or <<0>> with x = 0.
F64(bits, e) ==
    IF \A k \in 1..Len(bits) : bits[k] = 0 THEN <<"fin", <<0>>, 0>>
    ELSE LET hi == CHOOSE k \in 1..Len(bits) :
                      bits[k] = 1 /\ \A l \in 1..(k - 1) : bits[l] = 0
             lo == CHOOSE k \in 1..Len(bits) :
                      bits[k] = 1 /\ \A l \in (k + 1)..Len(bits) : bits[l] = 0
         IN  IF e + Len(bits) - hi >= 1024 THEN <<"inf">>
             ELSE <<"fin", SubSeq(bits, hi, lo), e + Len(bits) - lo>>

\* The quotient q of a division by t, rounded to the nearest integer, a tie
\* to the even one, times 2^e.
Rounded(q, t, e) ==
    F64(IF Less(t, q.rest) \/ (q.rest = t /\ q.bits[Len(q.bits)] = 1)
        THEN AddOne(q.bits) ELSE q.bits, e)

RECURSIVE Nearest(_, _, _, _)
\* The f64 nearest to n / d * 2^p, its last bit worth 2^e or more: e goes up
\* until n / d * 2^(p - e) is below 2^53, and that is rounded to an integer.
Nearest(n, d, p, e) ==
    IF ~Less(ShiftLeft(n, p - e), ShiftLeft(ShiftLeft(d, e - p), 53))
    THEN Nearest(n, d, p, e + 1)
    ELSE Rounded(DivBits([bits |-> <<>>, rest |-> ShiftLeft(n, p - e)],
                         ShiftLeft(ShiftLeft(d, e - p), 52), 53),
                 ShiftLeft(ShiftLeft(d, e - p), 52), e)

\* The f64 nearest to n / d * 2^p.  The last bit of an f64 of 53 bits is
\* worth 2^-1074 or more, and n / d is above 2^(BitLen(n) - BitLen(d) - 1).
NearestF64(n, d, p) ==
    Nearest(n, d, p,
            IF BitLen(n) - BitLen(d) + p - 53 < 0 - 1074 THEN 0 - 1074
            ELSE BitLen(n) - BitLen(d) + p - 53)

\* The exponent a digit string denotes; one of more than five digits is cut
\* to 99999, far outside the f64 range either way.
ExponentValue(ds) ==
    IF Len(StripZeros(ds)) > 5 THEN 99999 ELSE DigitsValue(StripZeros(ds))

\* The f64 nearest to ds * 10^x (ds a digit string), a tie going to the f64
\* with an even last bit.  A number of 10^309 or more is infinity and one
\* below 10^-324 is zero; the others are n / d * 2^x with the powers of 5
\* in n or in d.
Normalise(ds, x) ==
    LET lead == StripZeros(ds)
        top  == x + Len(lead) - 1
    IN  IF lead = <<"0">> THEN <<"fin", <<0>>, 0>>
        ELSE IF top >= 309 THEN <<"inf">>
        ELSE IF top <= 0 - 325 THEN <<"fin", <<0>>, 0>>
        ELSE IF x >= 0 THEN NearestF64(MulPow5(BigOfDigits(lead), x), <<1>>, x)
        ELSE NearestF64(BigOfDigits(lead), MulPow5(<<1>>, 0 - x), x)

\* NumberFloat::decode for a literal that starts with an ASCII digit at
\* offset i: JSON's number grammar, read as far as it goes.
NumberFloat(i) ==
    LET j == IF At(i) = "0" THEN i + 1 ELSE digits_end(i)
        hasFrac == j < src.len /\ At(j) = "."
        k == IF hasFrac THEN digits_end(j + 1) ELSE j
        hasExp == k < src.len /\ At(k) \in {"e", "E"}
        signed == hasExp /\ k + 1 < src.len /\ At(k + 1) \in {"+", "-"}
        l == IF signed THEN k + 2 ELSE k + 1
        m == IF hasExp THEN digits_end(l) ELSE k
        frac == IF hasFrac THEN DataBytes(j + 1, k) ELSE <<>>
        exp == IF ~hasExp THEN 0
               ELSE IF signed /\ At(k + 1) = "-"
               THEN 0 - ExponentValue(DataBytes(l, m))
               ELSE ExponentValue(DataBytes(l, m))
    IN  IF At(i) = "0" /\ j < src.len /\ IsDigit(At(j))
        THEN Err("InvalidNumber", j)
        ELSE IF hasFrac /\ k = j + 1
        THEN Err(IF k >= src.len THEN "EofWhileParsingValue"
                 ELSE "InvalidNumber", k)
        ELSE IF hasExp /\ m = l
        THEN Err(IF m >= src.len THEN "EofWhileParsingValue"
                 ELSE "InvalidNumber", m)
        ELSE Ok(Normalise(DataBytes(i, j) \o frac, exp - Len(frac)), m)

\* Jiter::next_float: peek, then known_float, which moves the cursor only on
\* success.
Jiter_next_float(i) ==
    LET p == Jiter_peek(i)
    IN  IF ~p.ok THEN p
        ELSE LET f == NumberFloat(p.index)
             IN  IF f.ok THEN f ELSE ErrLeftAt(f, p.index)

\* Peek::is_num for the bytes that reach the numeric arm.
is_num(p) == IsDigit(p) \/ p \in {"-", "I", "N"}

(***************************************************************************)
(* Value, Array and Map (merde_types).                                     *)
(***************************************************************************)
VNull == [t |-> "Null"]

VBool(b) == [t |-> "Bool", b |-> b]

VInt(i) == [t |-> "Int", i |-> i]

VFloat(f) == [t |-> "Float", f |-> f]

VStr(cow) == [t |-> "Str", s |-> cow]

VArray(a) == [t |-> "Array", a |-> a]

VMap(m) == [t |-> "Map", m |-> m]

\* Map::new: no entry.  A Map is a function from the text of a key to the
\* entry [key, value] stored under it.
Map_new == <<>>

\* Map::insert (HashMap::insert): CowStr keys are equal when their texts
\* are; an equal key keeps the stored key and replaces its value.
Map_insert(m, obj, key, value) ==
    LET c == Content(m, key)
    IN  IF c \in DOMAIN obj THEN [obj EXCEPT ![c].value = value]
        ELSE [d \in DOMAIN obj \cup {c} |->
                 IF d = c THEN [key |-> key, value |-> value] ELSE obj[d]]

(***************************************************************************)
(* The builder: bytes_to_value, jiter_to_value, jiter_to_value_with_peek.  *)
(* The recursion is kept as a stack of the enclosing calls, each standing  *)
(* in its Array or Object loop.                                            *)
(***************************************************************************)
NoValue == [t |-> "None"]

NoStr == Slice(0, 0)

NoError == [type |-> "None", index |-> 0]

Running == [kind |-> "Running"]

OkResult(v) == [kind |-> "Ok", value |-> v]

ErrResult(e) == [kind |-> "Err", err |-> e]

\* A panic (unimplemented!, unreachable!): its message and the error of the
\* token source it swallowed, if any.
PanicResult(msg, e) == [kind |-> "Panic", msg |-> msg, tokenErr |-> e]

ArrayFrame(arr) == [kind |-> "Array", arr |-> arr]

ObjectFrame(obj, key) == [kind |-> "Object", obj |-> obj, key |-> key]

Top == stack[Len(stack)]

Pop == SubSeq(stack, 1, Len(stack) - 1)

\* arr.push(value)
PushElem(arr, value) == Append(arr, value)

\* obj.insert(key, value), in memory m
InsertMember(m, obj, key, value) == Map_insert(m, obj, key, value)

\* The build ends without a Value: the ? operator returns the error through
\* every enclosing call, a panic unwinds them; what was built is dropped.
\* The cursor stays at i, where the last operation of the iterator left it.
Stop(res, i) ==
    /\ pc' = "done"
    /\ result' = res
    /\ stack' = <<>>
    /\ index' = i
    /\ UNCHANGED <<peek, ret>>

\* jiter_to_value_with_peek returns Ok(value) with the cursor at i.
Return(value, i) ==
    /\ pc' = "return"
    /\ ret' = value
    /\ index' = i
    /\ UNCHANGED <<peek, result>>

\* jiter_to_value_with_peek is entered for a value whose Peek is p, the
\* cursor at i.
Enter(p, i) ==
    /\ pc' = "dispatch"
    /\ peek' = p
    /\ index' = i
    /\ UNCHANGED <<ret, result>>

\* bytes_to_value / jiter_to_value: Jiter::new(src), iter.peek()?
Peek ==
    /\ pc = "peek"
    /\ LET r == Jiter_peek(index)
       IN  IF r.ok THEN Enter(r.v, r.index) /\ UNCHANGED stack
           ELSE Stop(ErrResult(r.err), r.index)
    /\ UNCHANGED <<input, mem, src, tape, s>>

\* Peek::Null, Peek::True, Peek::False, Peek::Infinity, Peek::NaN: the Value
\* is returned, the iterator is not touched.
Scalar ==
    /\ pc = "dispatch"
    /\ peek \in {"n", "t", "f", "I", "N"}
    /\ Return(CASE peek = "n" -> VNull
                [] peek = "t" -> VBool(TRUE)
                [] peek = "f" -> VBool(FALSE)
                [] peek = "I" -> VFloat(<<"inf">>)
                [] peek = "N" -> VFloat(<<"nan">>), index)
    /\ UNCHANGED <<input, mem, src, tape, s, stack>>

\* Peek::Minus => unimplemented!()
Minus ==
    /\ pc = "dispatch"
    /\ peek = "-"
    /\ Stop(PanicResult("not implemented", NoError), index)
    /\ UNCHANGED <<input, mem, src, tape, s>>

\* Peek::String: iter.known_str()?, then cowify.
String ==
    /\ pc = "dispatch"
    /\ peek = "\""
    /\ LET r == Jiter_known_str(index)
       IN  IF r.ok
           THEN /\ mem' = MemAfter(r.v)
                /\ tape' = TapeAfter(r.v)
                /\ s' = StrOf(r.v)
                /\ Return(VStr(cowify(MemAfter(r.v), src, StrOf(r.v))), r.index)
                /\ UNCHANGED stack
           ELSE Stop(ErrResult(r.err), r.index) /\ UNCHANGED <<mem, tape, s>>
    /\ UNCHANGED <<input, src>>

\* Peek::Array: iter.known_array()?; an empty array is returned, otherwise
\* the loop is entered and the first element built.
ArrayOpen ==
    /\ pc = "dispatch"
    /\ peek = "["
    /\ LET r == Jiter_known_array(index)
       IN  IF ~r.ok THEN Stop(ErrResult(r.err), r.index)
           ELSE IF ~r.some THEN Return(VArray(<<>>), r.index) /\ UNCHANGED stack
           ELSE Enter(r.v, r.index) /\ stack' = Append(stack, ArrayFrame(<<>>))
    /\ UNCHANGED <<input, mem, src, tape, s>>

\* The head of the Object loop for a key the token source has decoded as d,
\* the cursor then at i: the key is wrapped (the caller keeps it in its
\* frame), iter.peek()?, and the member's value is built.
NextMember(d, i) ==
    LET p == Jiter_peek(i)
    IN  /\ mem' = MemAfter(d)
        /\ tape' = TapeAfter(d)
        /\ s' = StrOf(d)
        /\ IF p.ok THEN Enter(p.v, p.index) ELSE Stop(ErrResult(p.err), p.index)

\* Peek::Object: iter.known_object()?; an empty object is returned,
\* otherwise the loop is entered for the first key.
ObjectOpen ==
    /\ pc = "dispatch"
    /\ peek = "{"
    /\ LET r == Jiter_known_object(index)
       IN  IF ~r.ok
           THEN Stop(ErrResult(r.err), r.index) /\ UNCHANGED <<mem, tape, s>>
           ELSE IF ~r.some
           THEN /\ Return(VMap(Map_new), r.index)
                /\ UNCHANGED <<mem, tape, s, stack>>
           ELSE /\ NextMember(r.v, r.index)
                /\ pc' = "dispatch" =>
                      stack' = Append(stack,
                                 ObjectFrame(Map_new,
                                     cowify(MemAfter(r.v), src, StrOf(r.v))))
    /\ UNCHANGED <<input, src>>

\* p if p.is_num(): next_int, else next_float, else unreachable!
Number ==
    /\ pc = "dispatch"
    /\ IsDigit(peek)
    /\ \E small \in BOOLEAN :
          LET n == Jiter_next_int(index, small)
              f == Jiter_next_float(index)
          IN  IF n.ok
              THEN IF n.v.kind = "Int"
                   THEN Return(VInt(n.v.i), n.index) /\ UNCHANGED stack
                   ELSE Stop(PanicResult("not implemented: BigInt", NoError),
                             n.index)
              ELSE IF f.ok THEN Return(VFloat(f.v), f.index) /\ UNCHANGED stack
              ELSE Stop(PanicResult("not an int, not a float!", f.err), f.index)
    /\ UNCHANGED <<input, mem, src, tape, s>>

\* _ => unimplemented!("peek {:?}", peek)
OtherPeek ==
    /\ pc = "dispatch"
    /\ peek \notin {"n", "t", "f", "-", "I", "N", "\"", "[", "{"}
    /\ ~is_num(peek)
    /\ Stop(PanicResult("not implemented: peek", NoError), index)
    /\ UNCHANGED <<input, mem, src, tape, s>>

\* The Array loop after an element was built: arr.push(value), then
\* iter.array_step()?; the next element is built or the Array returned.
ArrayStep ==
    /\ pc = "return"
    /\ stack # <<>>
    /\ Top.kind = "Array"
    /\ LET arr == PushElem(Top.arr, ret)
           r   == Jiter_array_step(index)
       IN  IF ~r.ok THEN Stop(ErrResult(r.err), r.index)
           ELSE IF ~r.some THEN Return(VArray(arr), r.index) /\ stack' = Pop
           ELSE Enter(r.v, r.index) /\ stack' = Append(Pop, ArrayFrame(arr))
    /\ UNCHANGED <<input, mem, src, tape, s>>

\* The Object loop after a member's value was built: obj.insert(key,
\* value), then iter.next_key()?; the next member is built or the Map
\* returned.
ObjectStep ==
    /\ pc = "return"
    /\ stack # <<>>
    /\ Top.kind = "Object"
    /\ LET obj == InsertMember(mem, Top.obj, Top.key, ret)
           r   == Jiter_next_key(index)
       IN  IF ~r.ok
           THEN Stop(ErrResult(r.err), r.index) /\ UNCHANGED <<mem, tape, s>>
           ELSE IF ~r.some
           THEN /\ Return(VMap(obj), r.index)
                /\ stack' = Pop
                /\ UNCHANGED <<mem, tape, s>>
           ELSE /\ NextMember(r.v, r.index)
                /\ pc' = "dispatch" =>
                      stack' = Append(Pop,
                                 ObjectFrame(obj,
                                     cowify(MemAfter(r.v), src, StrOf(r.v))))
    /\ UNCHANGED <<input, src>>

\* jiter_to_value returns the outermost Value to the caller.
Finish ==
    /\ pc = "return"
    /\ stack = <<>>
    /\ pc' = "done"
    /\ result' = OkResult(ret)
    /\ UNCHANGED <<input, mem, src, tape, index, peek, stack, s, ret>>

(***************************************************************************)
(* The initial states: a buffer holding a document, before the first       *)
(* token is read.                                                          *)
(***************************************************************************)
\* layout says where the tape's storage lies: right after the buffer
\* ("tape after") or right before it ("tape before").
SetUp(bytes, tree, intact, layout) ==
    LET base == IF layout = "tape before" THEN Len(bytes) ELSE 0
    IN  /\ input = [tree |-> tree, intact |-> intact]
        /\ src = Slice(base, Len(bytes))
        /\ tape = Slice(IF layout = "tape before" THEN 0 ELSE Len(bytes), 0)
        /\ mem = [a \in base..(base + Len(bytes) - 1) |-> bytes[a - base + 1]]
        /\ index = 0
        /\ pc = "peek"
        /\ peek = ""
        /\ stack = <<>>
        /\ s = NoStr
        /\ ret = NoValue
        /\ result = Running

\* The well-formed documents of up to MaxNodes nodes are drawn part by part:
\* a scalar, an array of its elements, an object of its first member and
\* the members after it.
Init ==
    \/ \E tree \in TreesOfSize(1) \cup WholeDocs :
          SetUp(RenderDoc(tree, <<>>), tree, TRUE, "tape after")
    \/ \E n \in 1..(MaxNodes - 1) : \E a \in ElemsOfSize(n) :
          SetUp(RenderDoc(TArray(a), <<>>), TArray(a), TRUE, "tape after")
    \/ \E n \in 1..(MaxNodes - 1) : \E j \in 1..n :
          \E k \in Keys, x \in TreesOfSize(j), rest \in MembersOfSize(n - j) :
             LET tree == TObject(<<[key |-> k, value |-> x]>> \o rest)
             IN  SetUp(RenderDoc(tree, <<>>), tree, TRUE, "tape after")
    \/ \E tree \in Trees(MaxSmallNodes), ws \in {<<>>, <<" ">>} :
          SetUp(RenderDoc(tree, ws), tree, TRUE, "tape before")
    \/ \E tree \in Damageable :
          LET doc == RenderDoc(tree, <<>>)
          IN  \E from \in 0..(Len(doc) - 1), n \in 1..MaxCut :
                 /\ from + n <= Len(doc)
                 /\ SetUp(CutOut(doc, from, from + n), tree, FALSE, "tape after")

Next ==
    \/ Peek
    \/ Scalar
    \/ Minus
    \/ String
    \/ ArrayOpen
    \/ ObjectOpen
    \/ Number
    \/ OtherPeek
    \/ ArrayStep
    \/ ObjectStep
    \/ Finish

Spec == Init /\ [][Next]_vars

(***************************************************************************)
(* cowify as a function of its own: any buffer src and any string s in a   *)
(* small memory.                                                           *)
(***************************************************************************)
Slices == { Slice(p, l) : p \in 0..MemSize, l \in 0..MemSize }

SlicesOfMem == { sl \in Slices : sl.ptr + sl.len <= MemSize }

InitCowify ==
    /\ mem \in [0..(MemSize - 1) -> {"a", "b"}]
    /\ src \in SlicesOfMem
    /\ s \in SlicesOfMem
    /\ input = [tree |-> TNull, intact |-> FALSE]
    /\ tape = Slice(0, 0)
    /\ index = 0
    /\ pc = "cowify"
    /\ peek = ""
    /\ stack = <<>>
    /\ ret = NoValue
    /\ result = Running

CowifyCall ==
    /\ pc = "cowify"
    /\ pc' = "cowified"
    /\ ret' = VStr(cowify(mem, src, s))
    /\ UNCHANGED <<input, mem, src, tape, index, peek, stack, s, result>>

NextCowify == CowifyCall

SpecCowify == InitCowify /\ [][NextCowify]_vars

(***************************************************************************)
(* What a document means: the Value tree of a document tree, with every    *)
(* string as its text.                                                     *)
(***************************************************************************)
\* The f64 of the literal whole.frac
FloatValue(whole, frac) ==
    Normalise(NatDigits(whole) \o frac, 0 - Len(frac))

\* The last member of ms whose key has the text c.
LastWith(ms, c) ==
    ms[CHOOSE k \in 1..Len(ms) :
          /\ ms[k].key.text = c
          /\ \A l \in (k + 1)..Len(ms) : ms[l].key.text # c]

RECURSIVE Expected(_)
Expected(tree) ==
    CASE tree.t = "Null"   -> [t |-> "Null"]
      [] tree.t = "Bool"   -> [t |-> "Bool", b |-> tree.b]
      [] tree.t = "Int"    ->
            [t |-> "Int", i |-> I64(tree.neg, tree.limbs)]
      [] tree.t = "BigInt" -> [t |-> "BigInt"]
      [] tree.t = "Float"  ->
            [t |-> "Float", f |-> FloatValue(tree.whole, tree.frac)]
      [] tree.t = "Str"    -> [t |-> "Str", text |-> tree.text]
      [] tree.t = "Array"  ->
            [t |-> "Array", a |-> [k \in 1..Len(tree.a) |-> Expected(tree.a[k])]]
      [] tree.t = "Object" ->
            [t |-> "Map",
             m |-> [c \in { tree.members[k].key.text : k \in 1..Len(tree.members) }
                      |-> Expected(LastWith(tree.members, c).value)]]

RECURSIVE ContentValue(_, _)
\* A built Value with every CowStr replaced by its text, read from memory m.
ContentValue(m, v) ==
    CASE v.t = "Str"   -> [t |-> "Str", text |-> Content(m, v.s)]
      [] v.t = "Array" ->
            [t |-> "Array", a |-> [k \in 1..Len(v.a) |-> ContentValue(m, v.a[k])]]
      [] v.t = "Map"   ->
            [t |-> "Map", m |-> [c \in DOMAIN v.m |-> ContentValue(m, v.m[c].value)]]
      [] OTHER -> v

RECURSIVE OnlyKinds(_, _)
\* Whether every leaf of a tree satisfies ok (a set of leaves).
OnlyKinds(tree, ok) ==
    CASE tree.t = "Array"  -> \A k \in 1..Len(tree.a) : OnlyKinds(tree.a[k], ok)
      [] tree.t = "Object" ->
            \A k \in 1..Len(tree.members) :
               /\ tree.members[k].key \in ok
               /\ OnlyKinds(tree.members[k].value, ok)
      [] OTHER -> tree \in ok

\* The leaves and keys of the model's documents.
AllLeaves == Leaves \cup WholeDocs \cup Keys

RECURSIVE FindByte(_, _)
\* The first offset at or after i that holds byte b, src.len if none does.
FindByte(i, b) ==
    IF i >= src.len \/ At(i) = b THEN i ELSE FindByte(i + 1, b)

\* The string token that starts at the first quote at or after the cursor:
\* the offsets of its quotes, and the bytes between them.  (No text of the
\* model's documents holds a quote, so the token ends at the next quote.)
TokenOpen == FindByte(index, "\"")

TokenClose == FindByte(TokenOpen + 1, "\"")

TokenRaw == DataBytes(TokenOpen + 1, TokenClose)

TokenEscaped == \E k \in 1..Len(TokenRaw) : TokenRaw[k] = "\\"

\* The texts of the strings and keys of the model's documents.
TokenTexts == { l.text : l \in { x \in AllLeaves : x.t = "Str" } }

\* A step in which a string value was consumed and wrapped: the String arm
\* returned.
StringStep == pc = "dispatch" /\ peek = "\"" /\ pc' = "return"

\* A step in which an object key was consumed and wrapped, and the build of
\* its member entered: the head of the Object loop.
KeyStep ==
    /\ \/ pc = "dispatch" /\ peek = "{"
       \/ pc = "return" /\ stack # <<>> /\ Top.kind = "Object"
    /\ pc' = "dispatch"

(***************************************************************************)
(* The claims.                                                             *)
(***************************************************************************)

\* C1: cowify gives Borrowed only for a string whose whole byte range
\* [s.ptr, s.ptr + s.len) lies inside the range of src; every other string
\* comes back Owned.
C1_BorrowedOnlyInsideSrc ==
    (pc = "cowified" /\ ret.s.variant = "Borrowed") =>
        /\ src.ptr <= s.ptr
        /\ s.ptr + s.len <= src.ptr + src.len

\* C2: an error of the token source ends the build as that Err: the build
\* never panics on an error the token source reported, and the malformed
\* document {"a":} ends as an Err.
C2_TokenErrorsPropagate ==
    pc = "done" =>
        /\ result.kind = "Panic" => result.tokenErr = NoError
        /\ BytesOf(mem, src) = <<"{", "\"", "a", "\"", ":", "}">> =>
              result.kind = "Err"

\* C3: an integer literal outside the i64 range ends the build as an Err
\* handed to the caller, not as a panic and not as a Value.
C3_BigIntIsAnErr ==
    (pc = "done" /\ input.intact /\ input.tree.t = "BigInt") =>
        result.kind = "Err"

\* C4: a string token (value or key) without escape sequences is wrapped as
\* the Borrowed span of its text in the buffer, wherever it stands and
\* whatever its length.
C4_UnescapedTokensAreBorrowed ==
    [][ LET span == Borrowed(src.ptr + TokenOpen + 1, TokenClose - TokenOpen - 1)
        IN  /\ (pc = "dispatch" /\ peek = "\"" /\ TokenClose < src.len
                   /\ ~TokenEscaped)
               => (pc' = "return" /\ ret' = VStr(span))
            /\ (KeyStep /\ ~TokenEscaped)
               => stack'[Len(stack')].key = span
      ]_vars

\* C4's witness: ["","a"] was built, both strings borrowed where they stand.
C4_Witness ==
    /\ pc = "done"
    /\ input.intact
    /\ input.tree = TArray(<<TStr(<<>>, FALSE), TStr(<<"a">>, FALSE)>>)
    /\ src.len = 8
    /\ result = OkResult(VArray(<<VStr(Borrowed(src.ptr + 2, 0)),
                                 VStr(Borrowed(src.ptr + 5, 1))>>))

\* C5: a string token (value or key) with an escape sequence is wrapped as
\* an Owned span whose text is the un-escaped text; and whichever variant
\* cowify gives, its text is the text of the string handed in.
C5_EscapedTokensAreOwned ==
    [][ /\ StringStep =>
              /\ Content(mem', ret'.s) = BytesOf(mem', s')
              /\ TokenEscaped =>
                    /\ ret'.s.variant = "Owned"
                    /\ \A text \in TokenTexts :
                          EscapeText(text) = TokenRaw => ret'.s.text = text
        /\ KeyStep =>
              /\ Content(mem', stack'[Len(stack')].key) = BytesOf(mem', s')
              /\ TokenEscaped =>
                    /\ stack'[Len(stack')].key.variant = "Owned"
                    /\ \A text \in TokenTexts :
                          EscapeText(text) = TokenRaw =>
                             stack'[Len(stack')].key.text = text
      ]_vars

\* C5's witness: the string "a\/" was built as the Owned text a/ from the
\* tape, which lies right after the buffer.
C5_Witness ==
    /\ pc = "return"
    /\ input.intact
    /\ input.tree = TStr(<<"a", "/">>, TRUE)
    /\ s = Slice(src.ptr + src.len, 2)
    /\ ret = VStr(Owned(<<"a", "/">>))

\* C6: a number literal the token source accepts is built as Int of its
\* value when it is integer-shaped and in the i64 range, negative ones
\* included, and as Float of its value when it has a fraction.
C6_IntAndFloat ==
    (pc = "done" /\ input.intact /\ input.tree.t \in {"Int", "Float"}) =>
        result = OkResult(Expected(input.tree))

\* C7: every object document is built as a Map that has one entry per
\* distinct key text, under a key of that text, and its value is the Value
\* of the last member with that key text.
C7_LastWriteWins ==
    (pc = "done" /\ input.intact /\ input.tree.t = "Object") =>
        /\ result.kind = "Ok"
        /\ result.value.t = "Map"
        /\ DOMAIN result.value.m =
              { input.tree.members[k].key.text :
                   k \in 1..Len(input.tree.members) }
        /\ \A c \in DOMAIN result.value.m :
              /\ Content(mem, result.value.m[c].key) = c
              /\ ContentValue(mem, result.value.m[c].value) =
                    Expected(LastWith(input.tree.members, c).value)

\* The leaves C8 speaks of: null, true, false, numbers, strings.  (Negative
\* numbers and integers outside the i64 range are C6's and C3's.)
C8_Leaves ==
    { l \in AllLeaves : l.t # "BigInt" /\ (l.t = "Int" => ~l.neg) }

\* C8: the build of a well-formed array document of n elements succeeds
\* with the Array of the n elements' Values in document order; [] gives the
\* empty Array and {} the empty Map.
C8_ArraysInOrder ==
    (pc = "done" /\ input.intact) =>
        /\ (input.tree.t = "Array" /\ OnlyKinds(input.tree, C8_Leaves)) =>
              /\ result.kind = "Ok"
              /\ ContentValue(mem, result.value) = Expected(input.tree)
        /\ input.tree = TObject(<<>>) => result = OkResult(VMap(Map_new))

\* The leaves C9 speaks of: unescaped strings and in-range integers.
C9_Leaves ==
    { l \in AllLeaves : l.t = "Int" \/ (l.t = "Str" /\ ~HasEscape(l)) }

\* C9: the build of a well-formed document of objects, arrays, unescaped
\* strings and in-range integers returns Ok with the Value tree of the
\* document.
C9_NestedDocuments ==
    (pc = "done" /\ input.intact /\ input.tree.t \in {"Array", "Object"}
        /\ OnlyKinds(input.tree, C9_Leaves)) =>
        /\ result.kind = "Ok"
        /\ ContentValue(mem, result.value) = Expected(input.tree)

\* C10: when jiter_to_value_with_peek has returned a Value, the cursor
\* stands after that value: what follows is the end of the document, or
\* the separator or closing bracket of the enclosing container.
C10_CursorAfterValue ==
    (pc = "return" /\ input.intact) =>
        LET j == eat_whitespace(index)
        IN  IF stack = <<>> THEN j = src.len
            ELSE /\ j < src.len
                 /\ At(j) \in (IF Top.kind = "Array" THEN {",", "]"}
                               ELSE {",", "}"})

====
